---- MODULE Spec2Model ----
(***************************************************************************)
(* Model of app/cropper.py: crop_test_strip, the detection-and-scoring     *)
(* pipeline that turns a decoded image into one crop rectangle or a        *)
(* reported failure.                                                       *)
(*                                                                         *)
(* An image is abstracted to what the pipeline reads of it: whether it is  *)
(* None, its shape (height, width, channels) and `content`, the ordered    *)
(* contour sequence that cvtColor -> GaussianBlur -> Canny -> dilate ->    *)
(* findContours computes from its pixels.  A contour is abstracted to its  *)
(* upright bounding rectangle (cv2.boundingRect) and twice its enclosed    *)
(* polygon area (cv2.contourArea is a multiple of 1/2 for integer          *)
(* vertices).  Python floats are modelled by exact rationals: every        *)
(* comparison the code makes is between quotients of pixel counts far      *)
(* below 2^53 and the literals 0.01, 0.95, 1.5, 15.0, 0.05, where the      *)
(* rounded and the exact comparison agree.                                 *)
(***************************************************************************)
EXTENDS Integers, Sequences, FiniteSets, TLC

VARIABLES active, pc, image, metadata, contours, i, best_contour, best_score,
          returned, error

vars == <<active, pc, image, metadata, contours, i, best_contour, best_score,
          returned, error>>

(* Invocation slots: one request each; slot 2 is used by SpecPair only. *)
Procs == {1, 2}

(* ---------------------------------------------------------------------- *)
(* Bounds of the model                                                     *)
(* ---------------------------------------------------------------------- *)
MaxContours == 2

PairMaxContours == 1

(* ---------------------------------------------------------------------- *)
(* Exact rationals standing for the Python floats                          *)
(* ---------------------------------------------------------------------- *)
RECURSIVE GCD(_, _)
GCD(a, b) == IF b = 0 THEN a ELSE GCD(b, a % b)

Frac(n, d) == LET g == GCD(n, d) IN [num |-> n \div g, den |-> d \div g]

LCM(a, b) == (a \div GCD(a, b)) * b

FracLT(a, b) ==
    LET l == LCM(a.den, b.den)
    IN  a.num * (l \div a.den) < b.num * (l \div b.den)

FracGT(a, b) == FracLT(b, a)

FracMul(a, b) ==
    LET g1 == GCD(a.num, b.den)
        g2 == GCD(b.num, a.den)
        h1 == IF g1 = 0 THEN 1 ELSE g1
        h2 == IF g2 = 0 THEN 1 ELSE g2
    IN  Frac((a.num \div h1) * (b.num \div h2), (a.den \div h2) * (b.den \div h1))

(* int(): truncation, here of a non-negative value *)
Trunc(a) == a.num \div a.den

Zero == Frac(0, 1)

Max(a, b) == IF a >= b THEN a ELSE b

Min(a, b) == IF a <= b THEN a ELSE b

(* ---------------------------------------------------------------------- *)
(* Configuration, cropper.py lines 37-50                                   *)
(* ---------------------------------------------------------------------- *)
MIN_AREA_RATIO == Frac(1, 100)

MAX_AREA_RATIO == Frac(95, 100)

MIN_ASPECT_RATIO == Frac(3, 2)

MAX_ASPECT_RATIO == Frac(15, 1)

CROP_MARGIN_PERCENT == Frac(5, 100)

(* ---------------------------------------------------------------------- *)
(* Values                                                                  *)
(* ---------------------------------------------------------------------- *)
None == [isNone |-> TRUE]

Unset == [unset |-> TRUE]

(* image.size of a numpy array *)
Size(img) == img.height * img.width * img.channels

(* ---------------------------------------------------------------------- *)
(* Inputs                                                                  *)
(* ---------------------------------------------------------------------- *)
(* What findContours can yield on the twice-dilated edge map of an image   *)
(* of the given size: a box inside the image, at least 3 pixels (or the    *)
(* whole image side, if shorter) wide and tall because every edge pixel    *)
(* was dilated twice by a 3x3 kernel, enclosing a polygon of area at most  *)
(* (w-1)(h-1), which is 0 exactly when the box is one pixel thin.          *)
PossibleContour(c, width, height) ==
    /\ c.x >= 0 /\ c.y >= 0
    /\ c.w >= Min(3, width) /\ c.h >= Min(3, height)
    /\ c.x + c.w <= width /\ c.y + c.h <= height
    /\ c.area2 >= 0 /\ c.area2 <= 2 * (c.w - 1) * (c.h - 1)
    /\ (c.area2 = 0) <=> (c.w = 1 \/ c.h = 1)

(* The sampled image sizes, with the box coordinates and the fillings      *)
(* sampled in each: filling 1 is a polygon of half the box's area, filling *)
(* 2 the rectangle through the box's corner pixels.                        *)
TestGrids ==
    { [width |-> 1, height |-> 60,
       xs |-> {0}, ys |-> {0, 20}, ws |-> {1}, hs |-> {5, 30}, fills |-> {2}],
      [width |-> 30, height |-> 60,
       xs |-> {0, 20}, ys |-> {0, 2, 31}, ws |-> {3, 30},
       hs |-> {5, 6, 30, 45, 46, 57, 60}, fills |-> {1, 2}],
      [width |-> 300, height |-> 500,
       xs |-> {0, 100}, ys |-> {100}, ws |-> {50}, hs |-> {300}, fills |-> {1, 2}] }

PairGrids == { g \in TestGrids : g.width # 30 }

Area2(w, h, fill) ==
    IF w = 1 \/ h = 1 THEN 0
    ELSE IF fill = 1 THEN w * h
    ELSE 2 * (w - 1) * (h - 1)

GridContours(g) ==
    { c \in { [x |-> b.x, y |-> b.y, w |-> b.w, h |-> b.h,
               area2 |-> Area2(b.w, b.h, b.fill)] :
               b \in [x : g.xs, y : g.ys, w : g.ws, h : g.hs, fill : g.fills] } :
        PossibleContour(c, g.width, g.height) }

(* Distinct outer contours are distinct connected regions of the edge map: *)
(* the sampled sequences keep their boxes apart by at least one pixel.      *)
Apart(c, d) ==
    \/ c.x + c.w < d.x \/ d.x + d.w < c.x
    \/ c.y + c.h < d.y \/ d.y + d.h < c.y

PossibleSequence(cs) ==
    \A j, k \in 1..Len(cs) : j < k => Apart(cs[j], cs[k])

(* A 3-channel (BGR) image of the grid's size whose pixels give contours cs *)
ColorImage(g, cs) ==
    [isNone |-> FALSE, height |-> g.height, width |-> g.width,
     channels |-> 3, content |-> cs]

(* Arrays that are not usable colour images: None, zero elements, or a 2-D *)
(* single-channel (grayscale) array.                                       *)
OddImages ==
    { None,
      [isNone |-> FALSE, height |-> 0, width |-> 30, channels |-> 3, content |-> <<>>],
      [isNone |-> FALSE, height |-> 60, width |-> 0, channels |-> 3, content |-> <<>>],
      [isNone |-> FALSE, height |-> 60, width |-> 30, channels |-> 1, content |-> <<>>] }

Grids == IF active = {1} THEN TestGrids ELSE PairGrids

MaxLen == IF active = {1} THEN MaxContours ELSE PairMaxContours

(* ---------------------------------------------------------------------- *)
(* crop_test_strip, the pure parts                                         *)
(* ---------------------------------------------------------------------- *)
(* line 73: image is None or image.size == 0 *)
IsInvalid(img) == img.isNone \/ Size(img) = 0

(* lines 81-86 *)
NewMetadata(img) ==
    [success |-> FALSE,
     original_size |-> [width |-> img.width, height |-> img.height],
     detection_method |-> "contour_detection",
     message |-> ""]

(* line 93: cv2.cvtColor(image, COLOR_BGR2GRAY) accepts 3 or 4 channels and *)
(* raises cv2.error on any other channel count.                             *)
CvtColorRaises(img) == img.channels \notin {3, 4}

(* lines 93-121: the contour sequence is a function of the pixels alone *)
FindContours(img) == img.content

(* line 138 *)
BoundingRect(c) == [x |-> c.x, y |-> c.y, w |-> c.w, h |-> c.h]

(* line 139 *)
ContourArea(c) == c.w * c.h

(* line 142 *)
AreaRatio(c, img) == Frac(ContourArea(c), img.height * img.width)

(* line 143, negated *)
PassesAreaFilter(c, img) ==
    ~ (FracLT(AreaRatio(c, img), MIN_AREA_RATIO) \/ FracGT(AreaRatio(c, img), MAX_AREA_RATIO))

(* line 147 *)
AspectRatio(c) == IF c.w > 0 THEN Frac(c.h, c.w) ELSE Zero

(* lower aspect bound forgotten *)
PassesAspectUpperOnly(c) == ~ FracGT(AspectRatio(c), MAX_ASPECT_RATIO)

(* line 150, negated *)
PassesAspectFilter(c) ==
    ~ (FracLT(AspectRatio(c), MIN_ASPECT_RATIO) \/ FracGT(AspectRatio(c), MAX_ASPECT_RATIO))

(* lines 155-156: cv2.contourArea(contour) / contour_area *)
Rectangularity(c) ==
    IF ContourArea(c) > 0 THEN Frac(c.area2, 2 * ContourArea(c)) ELSE Zero

(* line 161 *)
Score(c, img) == FracMul(AreaRatio(c, img), Rectangularity(c))

(* a best_score kept at module level, shared by the requests in flight *)
SharedBestScore(p) == best_score[CHOOSE q \in Procs : q # p]

(* line 132 *)
InitialBestScore(p) == Zero

(* comparison with the best so far dropped: the last survivor wins *)
LastWins(score, best) == TRUE

(* line 163 *)
IsBetter(score, best) == FracGT(score, best)

(* margin rounded up instead of truncated *)
MarginCeil(len) ==
    LET m == FracMul(Frac(len, 1), CROP_MARGIN_PERCENT)
    IN  IF m.den = 1 THEN m.num ELSE Trunc(m) + 1

(* lines 178-179 *)
Margin(len) == Trunc(FracMul(Frac(len, 1), CROP_MARGIN_PERCENT))

(* margin added without clamping to the image *)
CropRectUnclamped(b, width, height) ==
    [x1 |-> b.x - Margin(b.w),
     y1 |-> b.y - Margin(b.h),
     x2 |-> b.x + b.w + Margin(b.w),
     y2 |-> b.y + b.h + Margin(b.h)]

(* margin applied with the wrong sign on the left and top *)
CropRectInset(b, width, height) ==
    [x1 |-> Max(0, b.x + Margin(b.w)),
     y1 |-> Max(0, b.y + Margin(b.h)),
     x2 |-> Min(width, b.x + b.w + Margin(b.w)),
     y2 |-> Min(height, b.y + b.h + Margin(b.h))]

(* lines 175-185 *)
CropRect(b, width, height) ==
    [x1 |-> Max(0, b.x - Margin(b.w)),
     y1 |-> Max(0, b.y - Margin(b.h)),
     x2 |-> Min(width, b.x + b.w + Margin(b.w)),
     y2 |-> Min(height, b.y + b.h + Margin(b.h))]

(* line 188: image[y1:y2, x1:x2], a view of the input's own pixels *)
Slice(img, r) ==
    [isNone |-> FALSE, height |-> r.y2 - r.y1, width |-> r.x2 - r.x1,
     channels |-> img.channels, origin |-> [x |-> r.x1, y |-> r.y1], base |-> img]

(* an empty array returned instead of the input *)
EmptyBuffer(img) ==
    [isNone |-> FALSE, height |-> 0, width |-> 0, channels |-> img.channels,
     origin |-> [x |-> 0, y |-> 0], base |-> img]

(* lines 124-125 and 172-173: what a soft failure returns *)
FailureBuffer(img) == img

FailureMetadata(md, msg) == [md EXCEPT !.message = msg]

(* lines 191-194 *)
SuccessMetadata(md, r) ==
    [success |-> TRUE,
     original_size |-> md.original_size,
     detection_method |-> md.detection_method,
     bbox |-> [x |-> r.x1, y |-> r.y1, width |-> r.x2 - r.x1, height |-> r.y2 - r.y1],
     cropped_size |-> [width |-> r.x2 - r.x1, height |-> r.y2 - r.y1],
     message |-> "Test strip successfully detected and cropped"]

(* ---------------------------------------------------------------------- *)
(* State machine                                                           *)
(* ---------------------------------------------------------------------- *)
Idle(slots) ==
    /\ active = slots
    /\ pc = [p \in Procs |-> "idle"]
    /\ image = [p \in Procs |-> None]
    /\ metadata = [p \in Procs |-> Unset]
    /\ contours = [p \in Procs |-> Unset]
    /\ i = [p \in Procs |-> 0]
    /\ best_contour = [p \in Procs |-> None]
    /\ best_score = [p \in Procs |-> Zero]
    /\ returned = [p \in Procs |-> Unset]
    /\ error = [p \in Procs |-> ""]

Init == Idle({1})

InitPair == Idle({1, 2})

(* main.py lines 169 and 238: a request calls crop_test_strip(image) *)
Call(p) ==
    /\ p \in active
    /\ pc[p] = "idle"
    /\ \/ \E img \in OddImages : image' = [image EXCEPT ![p] = img]
       \/ \E g \in Grids, k \in 0..MaxLen :
            \E cs \in [1..k -> GridContours(g)] :
               /\ PossibleSequence(cs)
               /\ image' = [image EXCEPT ![p] = ColorImage(g, cs)]
    /\ pc' = [pc EXCEPT ![p] = "validate"]
    /\ UNCHANGED <<active, metadata, contours, i, best_contour, best_score, returned, error>>

(* main.py lines 170-187 and 239-267: the caller consumes the pair (or the  *)
(* exception) and the call's frame is gone; the slot takes the next request *)
Return(p) ==
    /\ pc[p] \in {"done", "raised"}
    /\ pc' = [pc EXCEPT ![p] = "idle"]
    /\ image' = [image EXCEPT ![p] = None]
    /\ metadata' = [metadata EXCEPT ![p] = Unset]
    /\ contours' = [contours EXCEPT ![p] = Unset]
    /\ i' = [i EXCEPT ![p] = 0]
    /\ best_contour' = [best_contour EXCEPT ![p] = None]
    /\ best_score' = [best_score EXCEPT ![p] = Zero]
    /\ returned' = [returned EXCEPT ![p] = Unset]
    /\ error' = [error EXCEPT ![p] = ""]
    /\ UNCHANGED active

(* lines 73-78 *)
Validate(p) ==
    /\ pc[p] = "validate"
    /\ IF IsInvalid(image[p])
       THEN /\ pc' = [pc EXCEPT ![p] = "raised"]
            /\ error' = [error EXCEPT ![p] = "ValueError: Invalid image: image is None or empty"]
       ELSE /\ pc' = [pc EXCEPT ![p] = "metadata"]
            /\ UNCHANGED error
    /\ UNCHANGED <<active, image, metadata, contours, i, best_contour, best_score, returned>>

(* lines 81-86 *)
BuildMetadata(p) ==
    /\ pc[p] = "metadata"
    /\ metadata' = [metadata EXCEPT ![p] = NewMetadata(image[p])]
    /\ pc' = [pc EXCEPT ![p] = "preprocess"]
    /\ UNCHANGED <<active, image, contours, i, best_contour, best_score, returned, error>>

(* lines 93-97: grayscale conversion and blur *)
Preprocess(p) ==
    /\ pc[p] = "preprocess"
    /\ IF CvtColorRaises(image[p])
       THEN /\ pc' = [pc EXCEPT ![p] = "raised"]
            /\ error' = [error EXCEPT ![p] = "cv2.error: Invalid number of channels in input image"]
       ELSE /\ pc' = [pc EXCEPT ![p] = "edges"]
            /\ UNCHANGED error
    /\ UNCHANGED <<active, image, metadata, contours, i, best_contour, best_score, returned>>

(* lines 107-112: Canny and dilation *)
DetectEdges(p) ==
    /\ pc[p] = "edges"
    /\ pc' = [pc EXCEPT ![p] = "contours"]
    /\ UNCHANGED <<active, image, metadata, contours, i, best_contour, best_score, returned, error>>

(* lines 121-132 *)
ExtractContours(p) ==
    /\ pc[p] = "contours"
    /\ contours' = [contours EXCEPT ![p] = FindContours(image[p])]
    /\ IF FindContours(image[p]) = <<>>
       THEN /\ metadata' = [metadata EXCEPT
                              ![p] = FailureMetadata(@, "No contours found in image")]
            /\ returned' = [returned EXCEPT ![p] = FailureBuffer(image[p])]
            /\ pc' = [pc EXCEPT ![p] = "done"]
            /\ UNCHANGED <<i, best_contour, best_score>>
       ELSE /\ best_contour' = [best_contour EXCEPT ![p] = None]
            /\ best_score' = [best_score EXCEPT ![p] = InitialBestScore(p)]
            /\ i' = [i EXCEPT ![p] = 1]
            /\ pc' = [pc EXCEPT ![p] = "loop"]
            /\ UNCHANGED <<metadata, returned>>
    /\ UNCHANGED <<active, image, error>>

(* lines 134-165: one iteration of the loop over the contours *)
ScoreContour(p) ==
    /\ pc[p] = "loop"
    /\ i[p] <= Len(contours[p])
    /\ LET c == contours[p][i[p]]
           score == Score(c, image[p])
       IN  IF /\ PassesAreaFilter(c, image[p])
              /\ PassesAspectFilter(c)
              /\ IsBetter(score, best_score[p])
           THEN /\ best_score' = [best_score EXCEPT ![p] = score]
                /\ best_contour' = [best_contour EXCEPT ![p] = BoundingRect(c)]
           ELSE UNCHANGED <<best_score, best_contour>>
    /\ i' = [i EXCEPT ![p] = @ + 1]
    /\ UNCHANGED <<active, pc, image, metadata, contours, returned, error>>

(* lines 171-196 *)
Crop(p) ==
    /\ pc[p] = "loop"
    /\ i[p] > Len(contours[p])
    /\ IF best_contour[p] = None
       THEN /\ metadata' = [metadata EXCEPT
                              ![p] = FailureMetadata(@, "No suitable test strip contour found")]
            /\ returned' = [returned EXCEPT ![p] = FailureBuffer(image[p])]
       ELSE LET r == CropRect(best_contour[p], image[p].width, image[p].height)
            IN  /\ metadata' = [metadata EXCEPT ![p] = SuccessMetadata(@, r)]
                /\ returned' = [returned EXCEPT ![p] = Slice(image[p], r)]
    /\ pc' = [pc EXCEPT ![p] = "done"]
    /\ UNCHANGED <<active, image, contours, i, best_contour, best_score, error>>

Next ==
    \E p \in Procs :
        \/ Call(p)
        \/ Validate(p)
        \/ BuildMetadata(p)
        \/ Preprocess(p)
        \/ DetectEdges(p)
        \/ ExtractContours(p)
        \/ ScoreContour(p)
        \/ Crop(p)
        \/ Return(p)

Spec == Init /\ [][Next]_vars

SpecPair == InitPair /\ [][Next]_vars

(* ---------------------------------------------------------------------- *)
(* Vocabulary of the properties, stated in integers straight from the      *)
(* thresholds and independent of the operators above                       *)
(* ---------------------------------------------------------------------- *)
Done(p) == pc[p] = "done"

Succeeded(p) == Done(p) /\ metadata[p].success

Failed(p) == Done(p) /\ ~ metadata[p].success

Width(p) == image[p].width

Height(p) == image[p].height

(* 0.01 <= w*h / (width*height) <= 0.95 *)
AreaInBounds(c, width, height) ==
    /\ 100 * (c.w * c.h) >= width * height
    /\ 100 * (c.w * c.h) <= 95 * (width * height)

(* w > 0 and 1.5 <= h/w <= 15.0 *)
AspectInBounds(c) == c.w > 0 /\ 2 * c.h >= 3 * c.w /\ c.h <= 15 * c.w

Survives(c, width, height) == AreaInBounds(c, width, height) /\ AspectInBounds(c)

Survivors(p) ==
    { k \in 1..Len(contours[p]) : Survives(contours[p][k], Width(p), Height(p)) }

(* area_ratio * rectangularity = (w*h / A) * (area / (w*h)) = area / A, so *)
(* within one image scores compare as the enclosed areas do.               *)
ScoreHigher(c, d) == c.area2 > d.area2

ScoreEqual(c, d) == c.area2 = d.area2

BoxOf(c) == [x |-> c.x, y |-> c.y, w |-> c.w, h |-> c.h]

(* ---------------------------------------------------------------------- *)
(* Properties                                                              *)
(* ---------------------------------------------------------------------- *)

(* C1: whenever crop_test_strip returns success, the returned bbox          *)
(* {x: x1, y: y1, width: x2-x1, height: y2-y1} satisfies                    *)
(* 0 <= x1 <= x2 <= width and 0 <= y1 <= y2 <= height.                      *)
BoundsInvariant ==
    \A p \in Procs :
        Succeeded(p) =>
            LET b == metadata[p].bbox
            IN  /\ 0 <= b.x /\ b.x <= b.x + b.width /\ b.x + b.width <= Width(p)
                /\ 0 <= b.y /\ b.y <= b.y + b.height /\ b.y + b.height <= Height(p)

(* a box touching x = 0 and the right edge with margin 1: both sides clamp *)
BoundsWitness ==
    /\ Succeeded(1)
    /\ best_contour[1] = [x |-> 0, y |-> 2, w |-> 30, h |-> 57]
    /\ metadata[1].bbox = [x |-> 0, y |-> 0, width |-> 30, height |-> 60]

(* C2: with a non-empty contour sequence the result is success=false with   *)
(* message "No suitable test strip contour found" exactly when no contour   *)
(* passes both filters, and success=true otherwise.                         *)
FailureIffNoSurvivor ==
    \A p \in Procs :
        (Done(p) /\ contours[p] # <<>>) =>
            /\ metadata[p].success <=> (Survivors(p) # {})
            /\ ~ metadata[p].success =>
                   metadata[p].message = "No suitable test strip contour found"

(* C3: on both soft-failure exits the returned buffer is the input image,   *)
(* and the metadata has success=false, no bbox, no cropped_size, the        *)
(* original size, the detection method and the exit's message.              *)
FailureExits ==
    \A p \in Procs :
        Failed(p) =>
            /\ returned[p] = image[p]
            /\ DOMAIN metadata[p] =
                   {"success", "original_size", "detection_method", "message"}
            /\ metadata[p].original_size = [width |-> Width(p), height |-> Height(p)]
            /\ metadata[p].detection_method = "contour_detection"
            /\ metadata[p].message =
                   IF contours[p] = <<>> THEN "No contours found in image"
                   ELSE "No suitable test strip contour found"

(* the second exit: contours were found, none was selected *)
FailureWitness ==
    /\ Failed(1)
    /\ Len(contours[1]) = 2
    /\ metadata[1].message = "No suitable test strip contour found"
    /\ returned[1] = image[1]

(* C4: the selected box belongs to a filter-passing contour, and no other   *)
(* filter-passing contour of the sequence has a strictly higher score.      *)
BestHasGreatestScore ==
    \A p \in Procs :
        Succeeded(p) =>
            \E j \in Survivors(p) :
                /\ BoxOf(contours[p][j]) = best_contour[p]
                /\ \A k \in Survivors(p) :
                       ~ ScoreHigher(contours[p][k], contours[p][j])

(* two survivors of different score, the higher one first and selected *)
GreatestScoreWitness ==
    /\ Succeeded(1)
    /\ Survivors(1) = {1, 2}
    /\ ScoreHigher(contours[1][1], contours[1][2])
    /\ best_contour[1] = BoxOf(contours[1][1])
    /\ best_contour[1] # BoxOf(contours[1][2])

(* C5: when two or more filter-passing contours share the greatest score,   *)
(* the first of them in the extractor's order is the one selected.          *)
FirstOfTiedBestSelected ==
    \A p \in Procs :
        Done(p) =>
            \A j, k \in Survivors(p) :
                ( /\ j < k
                  /\ ScoreEqual(contours[p][j], contours[p][k])
                  /\ \A m \in Survivors(p) :
                         /\ ~ ScoreHigher(contours[p][m], contours[p][j])
                         /\ m < j => ScoreHigher(contours[p][j], contours[p][m]) )
                => /\ metadata[p].success
                   /\ best_contour[p] = BoxOf(contours[p][j])

(* The part of C5 the code keeps: among survivors tied at a greatest score  *)
(* above 0 the first is selected, and a later contour replaces the best    *)
(* only with a strictly greater score.                                     *)
FirstOfPositiveTieSelected ==
    \A p \in Procs :
        Done(p) =>
            \A j, k \in Survivors(p) :
                ( /\ j < k
                  /\ contours[p][j].area2 > 0
                  /\ ScoreEqual(contours[p][j], contours[p][k])
                  /\ \A m \in Survivors(p) :
                         /\ ~ ScoreHigher(contours[p][m], contours[p][j])
                         /\ m < j => ScoreHigher(contours[p][j], contours[p][m]) )
                => /\ metadata[p].success
                   /\ best_contour[p] = BoxOf(contours[p][j])
                   /\ best_contour[p] # BoxOf(contours[p][k])

PositiveTieReached ==
    /\ Succeeded(1)
    /\ Survivors(1) = {1, 2}
    /\ ScoreEqual(contours[1][1], contours[1][2])
    /\ best_contour[1] = BoxOf(contours[1][1])

(* C6: margin_x = w div 20, margin_y = h div 20, the crop is the box grown  *)
(* by the margins and clamped to the image, reported as bbox and as         *)
(* cropped_size; box (100,100,50,300) in a 300x500 image gives              *)
(* bbox {x:98, y:85, width:54, height:330}.                                 *)
MarginArithmetic ==
    \A p \in Procs :
        Succeeded(p) =>
            LET b == best_contour[p]
                x1 == Max(0, b.x - (b.w \div 20))
                y1 == Max(0, b.y - (b.h \div 20))
                x2 == Min(Width(p), b.x + b.w + (b.w \div 20))
                y2 == Min(Height(p), b.y + b.h + (b.h \div 20))
            IN  /\ metadata[p].bbox =
                       [x |-> x1, y |-> y1, width |-> x2 - x1, height |-> y2 - y1]
                /\ metadata[p].cropped_size =
                       [width |-> metadata[p].bbox.width,
                        height |-> metadata[p].bbox.height]
                /\ returned[p].origin = [x |-> x1, y |-> y1]
                /\ returned[p].width = x2 - x1 /\ returned[p].height = y2 - y1
                /\ ( /\ b = [x |-> 100, y |-> 100, w |-> 50, h |-> 300]
                     /\ Width(p) = 300 /\ Height(p) = 500 )
                   => metadata[p].bbox =
                          [x |-> 98, y |-> 85, width |-> 54, height |-> 330]

MarginWitness ==
    /\ Succeeded(1)
    /\ Width(1) = 300 /\ Height(1) = 500
    /\ best_contour[1] = [x |-> 100, y |-> 100, w |-> 50, h |-> 300]
    /\ metadata[1].cropped_size = [width |-> 54, height |-> 330]

(* C7: a None or zero-element image aborts with the invalid-image error     *)
(* before metadata, preprocessing or contour extraction and returns no      *)
(* pair; every other image ends in one of the three outcomes, so an         *)
(* invocation that raised had a None or zero-element image.                 *)
InvalidAbortsOthersFinish ==
    \A p \in Procs :
        /\ (pc[p] \notin {"idle", "validate"}
              /\ (image[p].isNone \/ image[p].height * image[p].width = 0))
           => /\ pc[p] = "raised"
              /\ metadata[p] = Unset /\ contours[p] = Unset /\ returned[p] = Unset
        /\ pc[p] = "raised"
           => (image[p].isNone \/ image[p].height * image[p].width = 0)

(* C8: two invocations on the same image, however interleaved with each     *)
(* other and with earlier invocations of either slot, end alike: same       *)
(* exit, same DetectionResult, same crop.                                   *)
Deterministic ==
    \A p, q \in Procs :
        ( /\ pc[p] \in {"done", "raised"}
          /\ pc[q] \in {"done", "raised"}
          /\ image[p] = image[q] )
        => /\ pc[p] = pc[q]
           /\ metadata[p] = metadata[q]
           /\ returned[p] = returned[q]
           /\ error[p] = error[q]

DeterministicWitness ==
    /\ Succeeded(1) /\ Succeeded(2)
    /\ image[1] = image[2]
    /\ metadata[1].bbox = [x |-> 98, y |-> 85, width |-> 54, height |-> 330]
    /\ metadata[2] = metadata[1]

(* C9: a box held as best has w > 0, 0.01 <= w*h/(width*height) <= 0.95    *)
(* and 1.5 <= h/w <= 15.0, bounds included; in particular a square box is   *)
(* never held.                                                              *)
SelectedPassedFilters ==
    \A p \in Procs :
        best_contour[p] # None =>
            /\ Survives(best_contour[p], Width(p), Height(p))
            /\ best_contour[p].w # best_contour[p].h

(* a square covering half the image is passed over and a box with area      *)
(* ratio exactly 0.01 is selected                                           *)
SelectedWitness ==
    /\ Succeeded(1)
    /\ Width(1) = 30 /\ Height(1) = 60
    /\ BoxOf(contours[1][1]) = [x |-> 0, y |-> 0, w |-> 30, h |-> 30]
    /\ best_contour[1] = [x |-> 0, y |-> 31, w |-> 3, h |-> 6]

(* C10: on success the crop contains the winning box, is at least as large  *)
(* as it (w >= 1, h >= 1), and extends past it by at most w div 20 to the   *)
(* left and right and h div 20 to the top and bottom.                       *)
CropContainsBox ==
    \A p \in Procs :
        Succeeded(p) =>
            LET b == best_contour[p]
                x1 == metadata[p].bbox.x
                y1 == metadata[p].bbox.y
                x2 == x1 + metadata[p].bbox.width
                y2 == y1 + metadata[p].bbox.height
            IN  /\ x1 <= b.x /\ y1 <= b.y /\ x2 >= b.x + b.w /\ y2 >= b.y + b.h
                /\ x2 - x1 >= b.w /\ b.w >= 1
                /\ y2 - y1 >= b.h /\ b.h >= 1
                /\ b.x - x1 <= b.w \div 20 /\ x2 - (b.x + b.w) <= b.w \div 20
                /\ b.y - y1 <= b.h \div 20 /\ y2 - (b.y + b.h) <= b.h \div 20

(* a full margin on the left, top and bottom and room to spare on the right *)
CropContainsWitness ==
    /\ Succeeded(1)
    /\ best_contour[1] = [x |-> 100, y |-> 100, w |-> 50, h |-> 300]
    /\ metadata[1].bbox.x = 98
    /\ metadata[1].bbox.y = 85

====
